---- MODULE Spec2Model ----
(***************************************************************************)
(* Lottery part of main.py: the in-memory roster (lottery_candidates) and  *)
(* winners list (lottery_winners), and the upload, draw and reset          *)
(* endpoints that change them.                                             *)
(*                                                                         *)
(* Python values are tagged records: None is [kind |-> "none"], a str is   *)
(* [kind |-> "str", s |-> <<characters>>], an int is [kind |-> "int", ..]. *)
(* A str is a sequence of one-character strings, so that clean_text and    *)
(* str() are computed character by character.                              *)
(***************************************************************************)
EXTENDS Integers, Sequences, FiniteSets, TLC

(* ------------------------------ bounds --------------------------------- *)

\* Largest number of data rows in an uploaded sheet.
MaxRows == 2

(* --------------------------- Python values ----------------------------- *)

NoneVal == [kind |-> "none"]

StrVal(chars) == [kind |-> "str", s |-> chars]

IntVal(n) == [kind |-> "int", n |-> n]

\* bool(v) for the cell values openpyxl yields: None, str, int.
Truthy(v) ==
    CASE v.kind = "none" -> FALSE
      [] v.kind = "str"  -> v.s # <<>>
      [] v.kind = "int"  -> v.n # 0

Digit(d) == <<"0", "1", "2", "3", "4", "5", "6", "7", "8", "9">>[d + 1]

RECURSIVE DigitsOf(_)
DigitsOf(n) ==
    IF n < 10 THEN <<Digit(n)>>
    ELSE DigitsOf(n \div 10) \o <<Digit(n % 10)>>

\* str(v): the characters of the text Python's str() gives.
PyStr(v) ==
    CASE v.kind = "none" -> <<"N", "o", "n", "e">>
      [] v.kind = "str"  -> v.s
      [] v.kind = "int"  -> IF v.n < 0 THEN <<"-">> \o DigitsOf(0 - v.n)
                            ELSE DigitsOf(v.n)

StartsWith(s, p) == Len(s) >= Len(p) /\ SubSeq(s, 1, Len(p)) = p

\* s.replace(old, new) for a non-empty old: leftmost, non-overlapping.
RECURSIVE Replace(_, _, _)
Replace(s, old, new) ==
    IF s = <<>> THEN <<>>
    ELSE IF StartsWith(s, old)
         THEN new \o Replace(SubSeq(s, Len(old) + 1, Len(s)), old, new)
         ELSE <<Head(s)>> \o Replace(Tail(s), old, new)

IsSpace(c) == c \in {" ", "\t", "\n", "\r", "\f"}

RECURSIVE LStrip(_)
LStrip(s) == IF s # <<>> /\ IsSpace(Head(s)) THEN LStrip(Tail(s)) ELSE s

RECURSIVE RStrip(_)
RStrip(s) ==
    IF s # <<>> /\ IsSpace(s[Len(s)]) THEN RStrip(SubSeq(s, 1, Len(s) - 1)) ELSE s

\* s.strip()
Strip(s) == RStrip(LStrip(s))

X000D == <<"_", "x", "0", "0", "0", "D", "_">>

\* clean_text(text): a falsy value is returned as it is; anything else is
\* turned into text, the carriage-return artifacts become spaces, and the
\* ends are stripped.
clean_text(text) ==
    IF ~Truthy(text) THEN text
    ELSE StrVal(Strip(Replace(Replace(Replace(PyStr(text), X000D, <<" ">>),
                                   <<"\r">>, <<" ">>),
                           <<"\n">>, <<" ">>)))

(* ----------------------------- candidates ------------------------------ *)

\* f"{dept_id} - {name}"
FullName(dept_id, name) == StrVal(PyStr(dept_id) \o <<" ", "-", " ">> \o PyStr(name))

\* The dict appended for one accepted row.
Candidate(dept_id, name) ==
    [deptId |-> dept_id, name |-> name, fullName |-> FullName(dept_id, name)]

\* A row is taken only if both of its first two cells are truthy; the test
\* short-circuits, so row[1] is not read when row[0] is falsy.
RowAccepted(row) == Truthy(row[1]) /\ Truthy(row[2])

\* Reading row[1] (Python index) of a one-cell row raises IndexError.
RowRaises(row) == Truthy(row[1]) /\ Len(row) < 2

RowCandidate(row) == Candidate(clean_text(row[1]), clean_text(row[2]))

\* The candidates list built by the loop over the data rows, in row order.
RECURSIVE ParseRows(_)
ParseRows(rows) ==
    IF rows = <<>> THEN <<>>
    ELSE IF RowAccepted(Head(rows))
         THEN <<RowCandidate(Head(rows))>> \o ParseRows(Tail(rows))
         ELSE ParseRows(Tail(rows))

\* An upload raises when the workbook cannot be loaded or a row raises.
FileRaises(file) ==
    \/ ~file.loads
    \/ \E i \in 1..Len(file.rows) : RowRaises(file.rows[i])

(* ------------------------- uploaded files ------------------------------ *)

C7820 == <<"7", "8", "2", "0">>

C1000 == <<"1", "0", "0", "0">>

\* The data rows a sheet is made of: a numeric and a text department cell,
\* names with carriage-return artifacts, a missing cell, a blank cell and a
\* row of a one-column sheet.  A sheet may hold the same row several times.
Rows ==
    { <<IntVal(7820), StrVal(<<"A", "\r">>)>>,
      <<StrVal(C1000), StrVal(<<"B">> \o X000D \o <<"C">>)>>,
      <<NoneVal, StrVal(<<"B">>)>>,
      <<StrVal(<<" ">>), StrVal(<<"B">>)>>,
      <<StrVal(C1000)>> }

RECURSIVE SeqsUpTo(_, _)
SeqsUpTo(S, n) ==
    IF n = 0 THEN {<<>>}
    ELSE LET shorter == SeqsUpTo(S, n - 1)
         IN  shorter \cup {Append(q, x) : q \in shorter, x \in S}

Files ==
    {[loads |-> FALSE, rows |-> <<>>]}
        \cup {[loads |-> TRUE, rows |-> r] : r \in SeqsUpTo(Rows, MaxRows)}

\* The files an upload reads to the end, each with the candidates list the
\* loop builds from it.
ParsedFiles ==
    {[rows |-> f.rows, candidates |-> ParseRows(f.rows)] :
        f \in {g \in Files : ~FileRaises(g)}}

\* The files on which an upload raises.
RaisingFiles == {f \in Files : FileRaises(f)}

(* ------------------------------- state --------------------------------- *)

VARIABLES
    lottery_candidates,  \* the roster: people not drawn yet, in sheet order
    lottery_winners,     \* the winners list
    response,            \* the last request and what it returned
    sheet,               \* data rows of the last sheet uploaded with success
    uploaded,            \* the roster that upload stored
    rounds,              \* the non-empty winners lists the draws returned
                         \* since then, one per draw, oldest first
    pc,                  \* per worker thread: the place its draw has reached
    t_num_winners,       \* per worker thread: num_winners of its draw
    t_winners,           \* per worker thread: the local `winners`
    t_candidates,        \* per worker thread: the list built by the filter
    t_response,          \* per worker thread: what its draw returned
    s_pc,                \* weighted_sample run step by step: where it is
    s_items,             \* its argument items
    s_k,                 \* its argument k
    s_pool,              \* its local pool
    s_selected,          \* its local selected
    participants_db,     \* the contestants, in the order the dict holds them
    scores_db,           \* contestant id -> (judge name -> score)
    issued,              \* how many ids uuid4 has produced
    reply                \* the last contest request and what it returned

\* The locals of the worker threads that run draw_lottery.
threads == <<pc, t_num_winners, t_winners, t_candidates, t_response>>

\* The run of weighted_sample that is followed step by step.
sampler == <<s_pc, s_items, s_k, s_pool, s_selected>>

\* The state of the contest: contestants, scores and the last reply.
contest == <<participants_db, scores_db, issued, reply>>

\* The state that the lottery endpoints do not touch.
nonlottery == <<sampler, contest>>

vars == <<lottery_candidates, lottery_winners, response, sheet, uploaded, rounds,
          threads, sampler, contest>>

\* draw_lottery is a plain def: the server runs each request of it on a
\* thread of its pool, so two requests can overlap.
Threads == {1, 2}

\* What an endpoint returns, with the request it answers: k is num_winners
\* of a draw, winners and n are "winners" and "remaining" of a draw, n is
\* "count" of an upload; an HTTPException has a status other than 200.
Response(op, k, status, detail, winners, n) ==
    [op |-> op, k |-> k, status |-> status, detail |-> detail,
     winners |-> winners, n |-> n]

\* A dict with no key.
EmptyDict == [key \in {} |-> 0]

\* What a contest endpoint returns, with the request it answers: pid, judge
\* and score are the participant id, judge_name and score of the request (the
\* new id for an add), before is the number of scores the participant had
\* when a vote arrived, board is the list get_leaderboard returns.
Reply(op, pid, judge, score, status, before, board) ==
    [op |-> op, pid |-> pid, judge |-> judge, score |-> score,
     status |-> status, before |-> before, board |-> board]

Init ==
    /\ lottery_candidates = <<>>
    /\ lottery_winners = <<>>
    /\ response = Response("none", 0, 200, "", <<>>, 0)
    /\ sheet = <<>>
    /\ uploaded = <<>>
    /\ rounds = <<>>
    /\ pc = [t \in Threads |-> "idle"]
    /\ t_num_winners = [t \in Threads |-> 0]
    /\ t_winners = [t \in Threads |-> <<>>]
    /\ t_candidates = [t \in Threads |-> <<>>]
    /\ t_response = [t \in Threads |-> Response("none", 0, 200, "", <<>>, 0)]
    /\ s_pc = "idle"
    /\ s_items = <<>>
    /\ s_k = 0
    /\ s_pool = <<>>
    /\ s_selected = <<>>
    /\ participants_db = <<>>
    /\ scores_db = EmptyDict
    /\ issued = 0
    /\ reply = Reply("none", 0, "", 0, 200, 0, <<>>)

(* ------------------------------- draw ---------------------------------- *)

\* Faulty variant of Weight: department 7820 is weighted like the others.
WeightAllEqual(item) == 1

\* The weight of one pool entry.
Weight(item) == IF PyStr(item.deptId) = C7820 THEN 2 ELSE 1

\* Positions random.choices(pool, weights, k=1) can return: those of
\* positive weight.
Choosable(pool) == {i \in 1..Len(pool) : Weight(pool[i]) > 0}

\* Faulty variant of RemoveFirst: every entry equal to x is dropped.
RemoveEveryEqual(pool, x) == SelectSeq(pool, LAMBDA c : c # x)

\* list.remove(x): drops the first entry equal to x.
RECURSIVE RemoveFirst(_, _)
RemoveFirst(pool, x) ==
    IF pool = <<>> THEN <<>>
    ELSE IF Head(pool) = x THEN Tail(pool)
         ELSE <<Head(pool)>> \o RemoveFirst(Tail(pool), x)

\* weighted_sample(items, k): every list `selected` the k steps can build,
\* first drawn first.  range(k) is empty for k <= 0.  random.choices raises
\* on an empty pool, so no list is returned when k exceeds the pool.
RECURSIVE weighted_sample(_, _)
weighted_sample(items, k) ==
    IF k <= 0 THEN {<<>>}
    ELSE UNION { { <<items[i]>> \o rest :
                     rest \in weighted_sample(RemoveFirst(items, items[i]), k - 1) } :
                 i \in Choosable(items) }

\* Faulty variant of DrawError: the empty-roster check is left out.
DrawErrorNoEmptyCheck(candidates, num_winners) ==
    IF num_winners > Len(candidates) THEN "exceeds" ELSE "none"

\* The two checks draw_lottery makes before sampling.
DrawError(candidates, num_winners) ==
    IF Len(candidates) = 0 THEN "empty"
    ELSE IF num_winners > Len(candidates) THEN "exceeds"
    ELSE "none"

\* Faulty variant of ExtendWinners: the new winners are put in front.
ExtendWinnersInFront(old, winners) == winners \o old

\* Faulty variant of ExtendWinners: a winner already listed is not added.
ExtendWinnersSkipListed(old, winners) ==
    old \o SelectSeq(winners, LAMBDA w : \A i \in 1..Len(old) : old[i] # w)

\* lottery_winners.extend(winners)
ExtendWinners(old, winners) == old \o winners

\* Faulty variant of RemoveWinners: one roster entry is dropped per winner
\* (the first equal one), as list.remove would do.
RECURSIVE RemoveOnePerWinner(_, _)
RemoveOnePerWinner(candidates, winners) ==
    IF winners = <<>> THEN candidates
    ELSE RemoveOnePerWinner(RemoveFirst(candidates, Head(winners)), Tail(winners))

\* Faulty variant of RemoveWinners: only the first winner is filtered out.
RemoveFirstWinnerOnly(candidates, winners) ==
    IF winners = <<>> THEN candidates
    ELSE SelectSeq(candidates, LAMBDA c : c # winners[1])

\* [c for c in lottery_candidates if c not in winners]
RemoveWinners(candidates, winners) ==
    SelectSeq(candidates, LAMBDA c : \A i \in 1..Len(winners) : winners[i] # c)

\* Values of num_winners tried: negative, zero, up to one more than fits.
DrawCounts == -1 .. MaxRows + 1

\* A draw stopped by the empty-roster check.
draw_lottery_empty ==
    \E k \in DrawCounts :
        /\ DrawError(lottery_candidates, k) = "empty"
        /\ response' = Response("draw", k, 400, "empty", <<>>, 0)
        /\ UNCHANGED <<lottery_candidates, lottery_winners, sheet, uploaded, rounds,
                       threads>>
        /\ UNCHANGED nonlottery

\* A draw stopped by the check of num_winners against the roster length.
draw_lottery_exceeds ==
    \E k \in DrawCounts :
        /\ DrawError(lottery_candidates, k) = "exceeds"
        /\ response' = Response("draw", k, 400, "exceeds", <<>>, 0)
        /\ UNCHANGED <<lottery_candidates, lottery_winners, sheet, uploaded, rounds,
                       threads>>
        /\ UNCHANGED nonlottery

\* A draw that passes the checks: sample, extend the winners, filter the
\* roster, return.  An exception of the sampling leaves the handler before
\* anything is stored and is answered with status 500.
draw_lottery ==
    \E k \in DrawCounts :
        /\ DrawError(lottery_candidates, k) = "none"
        /\ IF weighted_sample(lottery_candidates, k) = {}
           THEN /\ response' = Response("draw", k, 500, "IndexError", <<>>, 0)
                /\ UNCHANGED <<lottery_candidates, lottery_winners, rounds>>
           ELSE \E winners \in weighted_sample(lottery_candidates, k) :
                /\ lottery_winners' = ExtendWinners(lottery_winners, winners)
                /\ lottery_candidates' = RemoveWinners(lottery_candidates, winners)
                /\ response' = Response("draw", k, 200, "", winners,
                                        Len(lottery_candidates'))
                /\ rounds' = IF winners = <<>> THEN rounds
                              ELSE Append(rounds, winners)
        /\ UNCHANGED <<sheet, uploaded, threads>>
        /\ UNCHANGED nonlottery

(* ------------------------------ upload --------------------------------- *)

\* Faulty variant of StoredRoster: the new candidates are added to the
\* previous roster.
StoredRosterAdded(candidates, previous) == previous \o candidates

\* The roster upload stores: the candidates list it built.
StoredRoster(candidates, previous) == candidates

\* Faulty variant of StoredWinners: the winners list is kept.
StoredWinnersKept(previous) == previous

\* The winners list upload stores.
StoredWinners(previous) == <<>>

\* An upload whose sheet is read to the end.
upload_lottery_file ==
    \E file \in ParsedFiles :
        /\ lottery_candidates' = StoredRoster(file.candidates, lottery_candidates)
        /\ lottery_winners' = StoredWinners(lottery_winners)
        /\ response' = Response("upload", 0, 200, "", <<>>, Len(file.candidates))
        /\ sheet' = file.rows
        /\ uploaded' = lottery_candidates'
        /\ rounds' = <<>>
        /\ UNCHANGED threads
        /\ UNCHANGED nonlottery

\* The rows the loop has gone through when a row raises.
RECURSIVE RowsBeforeRaise(_)
RowsBeforeRaise(rows) ==
    IF rows = <<>> \/ RowRaises(Head(rows)) THEN <<>>
    ELSE <<Head(rows)>> \o RowsBeforeRaise(Tail(rows))

\* Faulty variant of upload_lottery_file_error: the candidates built before
\* the exception are stored and the winners list is cleared.
upload_lottery_file_error_stores ==
    \E file \in RaisingFiles :
        /\ lottery_candidates' = ParseRows(RowsBeforeRaise(file.rows))
        /\ lottery_winners' = <<>>
        /\ response' = Response("upload", 0, 400, "error", <<>>, 0)
        /\ UNCHANGED <<sheet, uploaded, rounds, threads>>
        /\ UNCHANGED nonlottery

\* An upload that raises: the except clause answers 400, nothing is stored.
upload_lottery_file_error ==
    \E file \in RaisingFiles :
        /\ response' = Response("upload", 0, 400, "error", <<>>, 0)
        /\ UNCHANGED <<lottery_candidates, lottery_winners, sheet, uploaded, rounds,
                       threads>>
        /\ UNCHANGED nonlottery

(* ------------------------------- reset --------------------------------- *)

\* Faulty variant of reset_lottery: the winners list is kept.
reset_lottery_keeps_winners ==
    /\ lottery_candidates' = <<>>
    /\ response' = Response("reset", 0, 200, "", <<>>, 0)
    /\ sheet' = <<>>
    /\ uploaded' = <<>>
    /\ rounds' = <<>>
    /\ UNCHANGED <<lottery_winners, threads>>
    /\ UNCHANGED nonlottery

\* Both lists are replaced by empty lists; there is no check and no raise.
reset_lottery ==
    /\ lottery_candidates' = <<>>
    /\ lottery_winners' = <<>>
    /\ response' = Response("reset", 0, 200, "", <<>>, 0)
    /\ sheet' = <<>>
    /\ uploaded' = <<>>
    /\ rounds' = <<>>
    /\ UNCHANGED threads
    /\ UNCHANGED nonlottery

(* --------------------------- specification ----------------------------- *)

\* Requests executed one at a time.
Next ==
    \/ upload_lottery_file
    \/ upload_lottery_file_error
    \/ draw_lottery_empty
    \/ draw_lottery_exceeds
    \/ draw_lottery
    \/ reset_lottery

Spec == Init /\ [][Next]_vars

(* ------------------------- overlapping draws --------------------------- *)

\* The steps of draw_lottery on thread t.  Between two steps the other
\* thread may run; each step reads or writes the globals once.

\* The request arrives and the two checks are made.
draw_check(t) ==
    /\ pc[t] = "idle"
    /\ \E k \in DrawCounts :
        /\ t_num_winners' = [t_num_winners EXCEPT ![t] = k]
        /\ IF DrawError(lottery_candidates, k) = "none"
           THEN /\ pc' = [pc EXCEPT ![t] = "sample"]
                /\ UNCHANGED t_response
           ELSE /\ pc' = [pc EXCEPT ![t] = "done"]
                /\ t_response' = [t_response EXCEPT ![t] =
                       Response("draw", k, 400, DrawError(lottery_candidates, k),
                                <<>>, 0)]
    /\ UNCHANGED <<lottery_candidates, lottery_winners, response, sheet, uploaded,
                   rounds, t_winners, t_candidates>>
    /\ UNCHANGED nonlottery

\* winners = weighted_sample(lottery_candidates, num_winners): the roster is
\* read (and copied) once, the rest works on the copy.
draw_sample(t) ==
    /\ pc[t] = "sample"
    /\ IF weighted_sample(lottery_candidates, t_num_winners[t]) = {}
       THEN /\ pc' = [pc EXCEPT ![t] = "done"]
            /\ t_response' = [t_response EXCEPT ![t] =
                   Response("draw", t_num_winners[t], 500, "IndexError", <<>>, 0)]
            /\ UNCHANGED t_winners
       ELSE /\ \E selected \in weighted_sample(lottery_candidates, t_num_winners[t]) :
                t_winners' = [t_winners EXCEPT ![t] = selected]
            /\ pc' = [pc EXCEPT ![t] = "extend"]
            /\ UNCHANGED t_response
    /\ UNCHANGED <<lottery_candidates, lottery_winners, response, sheet, uploaded,
                   rounds, t_num_winners, t_candidates>>
    /\ UNCHANGED nonlottery

\* lottery_winners.extend(winners)
draw_extend(t) ==
    /\ pc[t] = "extend"
    /\ lottery_winners' = ExtendWinners(lottery_winners, t_winners[t])
    /\ pc' = [pc EXCEPT ![t] = "filter"]
    /\ UNCHANGED <<lottery_candidates, response, sheet, uploaded, rounds,
                   t_num_winners, t_winners, t_candidates, t_response>>
    /\ UNCHANGED nonlottery

\* The list comprehension reads the roster and builds the new list.
draw_filter(t) ==
    /\ pc[t] = "filter"
    /\ t_candidates' = [t_candidates EXCEPT ![t] =
           RemoveWinners(lottery_candidates, t_winners[t])]
    /\ pc' = [pc EXCEPT ![t] = "assign"]
    /\ UNCHANGED <<lottery_candidates, lottery_winners, response, sheet, uploaded,
                   rounds, t_num_winners, t_winners, t_response>>
    /\ UNCHANGED nonlottery

\* lottery_candidates = <the new list>
draw_assign(t) ==
    /\ pc[t] = "assign"
    /\ lottery_candidates' = t_candidates[t]
    /\ pc' = [pc EXCEPT ![t] = "return"]
    /\ UNCHANGED <<lottery_winners, response, sheet, uploaded, rounds,
                   t_num_winners, t_winners, t_candidates, t_response>>
    /\ UNCHANGED nonlottery

\* The return statement reads the roster again for "remaining".
draw_return(t) ==
    /\ pc[t] = "return"
    /\ t_response' = [t_response EXCEPT ![t] =
           Response("draw", t_num_winners[t], 200, "", t_winners[t],
                    Len(lottery_candidates))]
    /\ pc' = [pc EXCEPT ![t] = "done"]
    /\ UNCHANGED <<lottery_candidates, lottery_winners, response, sheet, uploaded,
                   rounds, t_num_winners, t_winners, t_candidates>>
    /\ UNCHANGED nonlottery

\* No draw has begun yet.
NoDrawBegun == \A t \in Threads : pc[t] = "idle"

\* One session: a sheet is uploaded, then each thread serves one draw
\* request, and the two draws overlap in every way the steps allow.
RaceNext ==
    \/ NoDrawBegun /\ upload_lottery_file
    \/ \E t \in Threads : draw_check(t)
    \/ \E t \in Threads : draw_sample(t)
    \/ \E t \in Threads : draw_extend(t)
    \/ \E t \in Threads : draw_filter(t)
    \/ \E t \in Threads : draw_assign(t)
    \/ \E t \in Threads : draw_return(t)

SpecRace == Init /\ [][RaceNext]_vars

(* ------------------- a draw with uploads and resets -------------------- *)

\* The thread whose draw is followed.
Worker == 1

\* upload_lottery_file runs on the event loop and reset_lottery on another
\* thread of the pool, so either may run between two steps of a draw that a
\* worker thread is serving.  Each is taken here as one step, which leaves
\* out only the states between its two assignments.
InterleavedNext ==
    \/ upload_lottery_file
    \/ reset_lottery
    \/ draw_check(Worker)
    \/ draw_sample(Worker)
    \/ draw_extend(Worker)
    \/ draw_filter(Worker)
    \/ draw_assign(Worker)
    \/ draw_return(Worker)

SpecInterleaved == Init /\ [][InterleavedNext]_vars

(* ----------------------- weighted_sample, stepwise --------------------- *)

\* Everything but the sampler.
lottery == <<lottery_candidates, lottery_winners, response, sheet, uploaded, rounds>>

\* The rosters weighted_sample is called with: what an upload can store.
SampleInputs == {f.candidates : f \in ParsedFiles}

\* The weight list of one step, computed over the pool of that step.
Weights(pool) == [i \in 1..Len(pool) |-> Weight(pool[i])]

RECURSIVE TotalWeight(_)
TotalWeight(pool) ==
    IF pool = <<>> THEN 0 ELSE Weight(Head(pool)) + TotalWeight(Tail(pool))

\* random.choices(pool, weights=weights, k=1) returns pool[i] with
\* probability weights[i] / sum(weights): the fraction <<numerator,
\* denominator>>.
SelectProbability(pool, i) == <<Weights(pool)[i], TotalWeight(pool)>>

\* selected = [] ; pool = items.copy()
sample_call ==
    /\ s_pc # "loop"
    /\ \E items \in SampleInputs, k \in DrawCounts :
        /\ s_items' = items
        /\ s_k' = k
        /\ s_pool' = items
    /\ s_selected' = <<>>
    /\ s_pc' = "loop"
    /\ UNCHANGED <<lottery, threads, contest>>

\* One pass of the loop body: choose, append, remove.
sample_step ==
    /\ s_pc = "loop"
    /\ Len(s_selected) < s_k
    /\ s_pool # <<>>
    /\ \E i \in Choosable(s_pool) :
        /\ s_selected' = Append(s_selected, s_pool[i])
        /\ s_pool' = RemoveFirst(s_pool, s_pool[i])
    /\ UNCHANGED <<s_pc, s_items, s_k, lottery, threads, contest>>

\* random.choices raises IndexError on an empty pool.
sample_raise ==
    /\ s_pc = "loop"
    /\ Len(s_selected) < s_k
    /\ s_pool = <<>>
    /\ s_pc' = "raised"
    /\ UNCHANGED <<s_items, s_k, s_pool, s_selected, lottery, threads, contest>>

\* range(k) is used up: return selected.
sample_return ==
    /\ s_pc = "loop"
    /\ Len(s_selected) >= s_k
    /\ s_pc' = "returned"
    /\ UNCHANGED <<s_items, s_k, s_pool, s_selected, lottery, threads, contest>>

SampleNext ==
    \/ sample_call
    \/ sample_step
    \/ sample_raise
    \/ sample_return

SpecSample == Init /\ [][SampleNext]_vars

(* ------------------------------ contest -------------------------------- *)

\* At most this many contestants are ever added.
MaxParticipants == 2

\* The ids uuid4 produces: the n-th call returns n, never an id it has
\* returned before.
Ids == 1..MaxParticipants

Names == {"An"}

Judges == {"Tai", "Hung"}

\* The scores judges send: the two ends of the range the test of line 113
\* lets through, the score below and the score above it, and 10, the upper
\* end the error message names.  A score is a float; these are whole.
Scores == {-1, 0, 10, 100, 101}

\* d[key] = value on a dict.
SetItem(d, key, value) ==
    [x \in DOMAIN d \cup {key} |-> IF x = key THEN value ELSE d[x]]

\* del d[key] on a dict that has the key.
DelItem(d, key) == [x \in DOMAIN d \ {key} |-> d[x]]

\* The keys of participants_db.
ParticipantIds(participants) == {participants[i].id : i \in 1..Len(participants)}

\* participants_db without the entry of key pid; the others keep their order.
RECURSIVE DelParticipant(_, _)
DelParticipant(participants, pid) ==
    IF participants = <<>> THEN <<>>
    ELSE IF Head(participants).id = pid
         THEN DelParticipant(Tail(participants), pid)
         ELSE <<Head(participants)>> \o DelParticipant(Tail(participants), pid)

\* uuid4 gives a new id; the contestant and an empty score table are stored.
add_participant ==
    \E name \in Names :
        /\ issued < MaxParticipants
        /\ LET new_id == issued + 1
           IN  /\ issued' = new_id
               /\ participants_db' =
                      Append(participants_db, [id |-> new_id, name |-> name])
               /\ scores_db' = SetItem(scores_db, new_id, EmptyDict)
               /\ reply' = Reply("add", new_id, "", 0, 200, 0, <<>>)
        /\ UNCHANGED <<lottery, threads, sampler>>

\* delete of an id that is not registered: 404.
delete_participant_missing ==
    \E pid \in Ids :
        /\ pid \notin ParticipantIds(participants_db)
        /\ reply' = Reply("delete", pid, "", 0, 404, 0, <<>>)
        /\ UNCHANGED <<participants_db, scores_db, issued>>
        /\ UNCHANGED <<lottery, threads, sampler>>

\* Faulty variant of DeletedScores: the score table is left behind.
DeletedScoresKept(scores, pid) == scores

\* scores_db after del scores_db[participant_id].
DeletedScores(scores, pid) == DelItem(scores, pid)

\* delete of a registered id: the record goes, then the score table; the
\* second del raises KeyError when there is no table.
delete_participant ==
    \E pid \in Ids :
        /\ pid \in ParticipantIds(participants_db)
        /\ participants_db' = DelParticipant(participants_db, pid)
        /\ IF pid \in DOMAIN scores_db
           THEN /\ scores_db' = DeletedScores(scores_db, pid)
                /\ reply' = Reply("delete", pid, "", 0, 200, 0, <<>>)
           ELSE /\ scores_db' = scores_db
                /\ reply' = Reply("delete", pid, "", 0, 500, 0, <<>>)
        /\ UNCHANGED issued
        /\ UNCHANGED <<lottery, threads, sampler>>

\* The test of line 113 on the score.
ScoreValid(score) == 0 <= score /\ score <= 100

\* A vote for an id that is not registered: 404.
vote_participant_missing ==
    \E pid \in Ids, judge \in Judges, score \in Scores :
        /\ pid \notin ParticipantIds(participants_db)
        /\ reply' = Reply("vote", pid, judge, score, 404, 0, <<>>)
        /\ UNCHANGED <<participants_db, scores_db, issued>>
        /\ UNCHANGED <<lottery, threads, sampler>>

\* A vote whose score fails the test: 400.
vote_participant_invalid ==
    \E pid \in Ids, judge \in Judges, score \in Scores :
        /\ pid \in ParticipantIds(participants_db)
        /\ ~ScoreValid(score)
        /\ reply' = Reply("vote", pid, judge, score, 400,
                          IF pid \in DOMAIN scores_db
                          THEN Cardinality(DOMAIN scores_db[pid]) ELSE 0, <<>>)
        /\ UNCHANGED <<participants_db, scores_db, issued>>
        /\ UNCHANGED <<lottery, threads, sampler>>

\* Faulty variant of StoredScore: the participant's table is replaced by one
\* that holds the new score only.
StoredScoreAlone(scores, pid, judge, score) ==
    SetItem(scores, pid, SetItem(EmptyDict, judge, score))

\* scores_db after scores_db[participant_id][judge_name] = score.
StoredScore(scores, pid, judge, score) ==
    SetItem(scores, pid, SetItem(scores[pid], judge, score))

\* A vote that is accepted; scores_db[participant_id] raises KeyError when
\* there is no table.
vote_participant ==
    \E pid \in Ids, judge \in Judges, score \in Scores :
        /\ pid \in ParticipantIds(participants_db)
        /\ ScoreValid(score)
        /\ IF pid \in DOMAIN scores_db
           THEN /\ scores_db' = StoredScore(scores_db, pid, judge, score)
                /\ reply' = Reply("vote", pid, judge, score, 200,
                                  Cardinality(DOMAIN scores_db[pid]), <<>>)
           ELSE /\ scores_db' = scores_db
                /\ reply' = Reply("vote", pid, judge, score, 500, 0, <<>>)
        /\ UNCHANGED <<participants_db, issued>>
        /\ UNCHANGED <<lottery, threads, sampler>>

\* sum(d.values())
RECURSIVE PySum(_)
PySum(d) ==
    IF DOMAIN d = {} THEN 0
    ELSE LET key == CHOOSE x \in DOMAIN d : TRUE
         IN  d[key] + PySum(DelItem(d, key))

\* round(num / den, 2) in hundredths, for num >= 0 and den > 0: the nearest
\* hundredth, the even one of two equally near.
PyRound2(num, den) ==
    LET q == (100 * num) \div den
        r == (100 * num) % den
    IN  IF 2 * r < den THEN q
        ELSE IF 2 * r > den THEN q + 1
        ELSE IF q % 2 = 0 THEN q ELSE q + 1

\* The entry of one contestant; average_score is in hundredths.
RankingItem(participant, scores) ==
    LET participant_scores ==
            IF participant.id \in DOMAIN scores THEN scores[participant.id]
            ELSE EmptyDict
        count == Cardinality(DOMAIN participant_scores)
    IN  [participant_id |-> participant.id,
         participant_name |-> participant.name,
         average_score |-> IF count # 0
                           THEN PyRound2(PySum(participant_scores), count)
                           ELSE 0,
         vote_count |-> IF count # 0 THEN count ELSE 0]

\* The list the loop builds, in the order of participants_db.
RankingList(participants, scores) ==
    [i \in 1..Len(participants) |-> RankingItem(participants[i], scores)]

\* item put into a list sorted by falling average, behind the entries whose
\* average is not smaller.
RECURSIVE InsertByAverage(_, _)
InsertByAverage(sorted, item) ==
    IF sorted = <<>> THEN <<item>>
    ELSE IF Head(sorted).average_score >= item.average_score
         THEN <<Head(sorted)>> \o InsertByAverage(Tail(sorted), item)
         ELSE <<item>> \o sorted

\* Faulty variant of sorted_ranking: the list is returned as built.
ranking_unsorted(ranking_list) == ranking_list

\* sorted(ranking_list, key=average_score, reverse=True): the sort is stable,
\* entries of equal average keep their order.
RECURSIVE sorted_ranking(_)
sorted_ranking(ranking_list) ==
    IF ranking_list = <<>> THEN <<>>
    ELSE InsertByAverage(
             sorted_ranking(SubSeq(ranking_list, 1, Len(ranking_list) - 1)),
             ranking_list[Len(ranking_list)])

\* The leaderboard is computed from the two dicts, which it does not change.
get_leaderboard ==
    /\ reply' = Reply("leaderboard", 0, "", 0, 200, 0,
                      sorted_ranking(RankingList(participants_db, scores_db)))
    /\ UNCHANGED <<participants_db, scores_db, issued>>
    /\ UNCHANGED <<lottery, threads, sampler>>

\* The contest requests, served one at a time.
ContestNext ==
    \/ add_participant
    \/ delete_participant_missing
    \/ delete_participant
    \/ vote_participant_missing
    \/ vote_participant_invalid
    \/ vote_participant
    \/ get_leaderboard

SpecContest == Init /\ [][ContestNext]_vars

(* ---------------------- helpers of the properties ---------------------- *)

Range(seq) == {seq[i] : i \in 1..Len(seq)}

Count(seq, x) == Cardinality({i \in 1..Len(seq) : seq[i] = x})

\* The two sequences hold the same values the same number of times.
SameBag(a, b) == \A x \in Range(a) \cup Range(b) : Count(a, x) = Count(b, x)

IsPrefix(a, b) == Len(a) <= Len(b) /\ SubSeq(b, 1, Len(a)) = a

\* The step is a draw that returned a result.
DrawReturned == response'.op = "draw" /\ response'.status = 200

(* ------------------------------ claims --------------------------------- *)

\* C1: a successful draw(k) with 1 <= k <= |roster| returns exactly k
\* winners, each in the roster before the draw, and leaves a roster of
\* exactly (length before - k) entries, which is the `remaining` returned.
\* Fails on the code: a roster with two equal entries loses both when one
\* of them is drawn.
C1_DrawTakesExactlyK ==
    [][ (DrawReturned /\ response'.k >= 1) =>
          /\ Len(response'.winners) = response'.k
          /\ Range(response'.winners) \subseteq Range(lottery_candidates)
          /\ Len(lottery_candidates') = Len(lottery_candidates) - response'.k
          /\ response'.n = Len(lottery_candidates') ]_vars

\* C2: conservation: the roster and the winners list together hold exactly
\* the uploaded roster, as multisets (before an upload and after a reset the
\* uploaded roster is empty).  Fails on the code, as C1 does.
C2_Conservation == SameBag(lottery_candidates \o lottery_winners, uploaded)

\* C3: no candidate value is in both the roster and the winners list.
C3_RosterWinnersDisjoint ==
    Range(lottery_candidates) \cap Range(lottery_winners) = {}

\* C3 witness: a draw has left candidates on both sides.
C3_Witness ==
    /\ response.op = "draw" /\ response.status = 200
    /\ lottery_candidates # <<>> /\ lottery_winners # <<>>

\* C4: a draw with k = 0 is answered with status 400, whatever the roster.
\* Fails on the code: on a non-empty roster it returns no winners with 200.
C4_ZeroDrawRejected ==
    (response.op = "draw" /\ response.k = 0) => response.status = 400

\* C5: a draw on an empty roster, or with k above the roster length, is
\* answered with status 400, returns no winners and changes neither list.
C5_RejectedDrawChangesNothing ==
    [][ (response'.op = "draw"
           /\ (Len(lottery_candidates) = 0
                 \/ response'.k > Len(lottery_candidates))) =>
          /\ response'.status = 400
          /\ response'.winners = <<>>
          /\ lottery_candidates' = lottery_candidates
          /\ lottery_winners' = lottery_winners ]_vars

\* C5 witness: mid-session, a draw asked for more than is left.
C5_Witness ==
    /\ response.op = "draw" /\ response.status = 400
    /\ response.k > Len(lottery_candidates)
    /\ lottery_candidates # <<>> /\ lottery_winners # <<>>

\* No value occurs twice in the sequence.
NoRepeats(seq) == \A i, j \in 1..Len(seq) : seq[i] = seq[j] => i = j

\* Both overlapping draws have returned a result.
BothReturned == \A t \in Threads : pc[t] = "done" /\ t_response[t].status = 200

\* The results of the two draws share a candidate.
ResultsOverlap == Range(t_response[1].winners) \cap Range(t_response[2].winners) # {}

\* C6: two overlapping draws can give the same candidate twice.  When both
\* have returned, every returned winner is in the winners list once per
\* return; so if the two results share a candidate of a roster without
\* value-equal entries, the winners list holds that candidate twice and
\* |roster| + |winners| exceeds the size of the uploaded roster.
C6_OverlappingDrawsDuplicate ==
    BothReturned =>
        /\ Len(lottery_winners)
             = Len(t_response[1].winners) + Len(t_response[2].winners)
        /\ (ResultsOverlap /\ NoRepeats(uploaded)) =>
             /\ ~NoRepeats(lottery_winners)
             /\ Len(lottery_candidates) + Len(lottery_winners) > Len(uploaded)

\* C6 witness: the roster had no value-equal entries, both draws returned,
\* and one candidate is in the winners list twice.
C6_Witness ==
    /\ BothReturned
    /\ NoRepeats(uploaded)
    /\ ~NoRepeats(lottery_winners)
    /\ Len(lottery_candidates) + Len(lottery_winners) # Len(uploaded)

\* C7: within a session, the winners of two different draws are disjoint.
C7_RoundsDisjoint ==
    \A i, j \in 1..Len(rounds) :
        i < j => Range(rounds[i]) \cap Range(rounds[j]) = {}

\* C7 witness: two draws of the same session have each returned winners.
C7_Witness ==
    /\ Len(rounds) >= 2
    /\ response.op = "draw" /\ response.status = 200 /\ response.winners # <<>>

\* C8: a successful draw appends its returned winners, in the order
\* returned, to the end of the winners list; only a reset or a successful
\* upload takes entries away or moves them.
C8_WinnersAppendOnly ==
    [][ /\ DrawReturned =>
             lottery_winners' = lottery_winners \o response'.winners
        /\ (response'.op # "reset"
              /\ ~(response'.op = "upload" /\ response'.status = 200)) =>
             IsPrefix(lottery_winners, lottery_winners') ]_vars

\* C8 witness: the winners of a draw have been appended behind earlier ones.
C8_Witness ==
    /\ response.op = "draw" /\ response.status = 200
    /\ response.winners # <<>>
    /\ Len(lottery_winners) > Len(response.winners)

\* The one state a reset leaves.
AfterReset ==
    <<lottery_candidates, lottery_winners, response, sheet, uploaded, rounds>>
        = << <<>>, <<>>, Response("reset", 0, 200, "", <<>>, 0), <<>>, <<>>, <<>> >>

\* C9: reset is possible in every state and answers 200; it leaves both
\* lists empty, and the state it leaves does not depend on the state it
\* started from, so a second reset changes nothing.
C9_ResetClears ==
    [][ /\ ENABLED reset_lottery
        /\ response'.op = "reset" =>
             /\ response'.status = 200
             /\ lottery_candidates' = <<>> /\ lottery_winners' = <<>>
             /\ AfterReset' ]_vars

\* C9 witness: a reset has answered.
C9_Witness ==
    response.op = "reset" /\ lottery_candidates = <<>> /\ lottery_winners = <<>>

\* C10: a successful upload stores exactly the candidates parsed from the
\* sheet, in row order, and an empty winners list.
C10_UploadReplaces ==
    [][ (response'.op = "upload" /\ response'.status = 200) =>
          /\ lottery_candidates' = ParseRows(sheet')
          /\ lottery_winners' = <<>>
          /\ response'.n = Len(lottery_candidates') ]_vars

\* C10 witness: an upload has stored a roster.
C10_Witness ==
    /\ response.op = "upload" /\ response.status = 200
    /\ lottery_candidates # <<>> /\ lottery_candidates = uploaded

RECURSIVE SumLen(_)
SumLen(lists) == IF lists = <<>> THEN 0 ELSE Len(Head(lists)) + SumLen(Tail(lists))

\* The step is an upload that stored a sheet.
UploadStored == response'.op = "upload" /\ response'.status = 200

\* C11: for an uploaded roster without value-equal entries, a successful
\* draw(k), k >= 1, returns k winners and the roster always holds what the
\* draws have not returned; so draws whose counts sum to the size of the
\* uploaded roster leave it empty.  On an empty roster every draw(k),
\* k >= 1, is answered 400, and the roster stays empty until an upload
\* stores a sheet.
C11_ExhaustedRosterRejectsDraws ==
    [][ /\ (NoRepeats(uploaded) /\ DrawReturned /\ response'.k >= 1) =>
             Len(response'.winners) = response'.k
        /\ NoRepeats(uploaded') =>
             Len(lottery_candidates') = Len(uploaded') - SumLen(rounds')
        /\ (lottery_candidates = <<>> /\ response'.op = "draw"
              /\ response'.k >= 1) =>
             response'.status = 400
        /\ (lottery_candidates = <<>> /\ ~UploadStored) =>
             lottery_candidates' = <<>> ]_vars

\* C11 witness: two draws have used up a roster of two different
\* candidates, and a further draw of one has been rejected.
C11_Witness ==
    /\ NoRepeats(uploaded) /\ Len(uploaded) >= 2
    /\ Len(rounds) >= 2 /\ SumLen(rounds) = Len(uploaded)
    /\ lottery_candidates = <<>>
    /\ response.op = "draw" /\ response.k >= 1 /\ response.status = 400

\* The stepwise run and the operator used by draw_lottery agree: what the
\* loop returns is one of the lists of weighted_sample, and it raises
\* exactly when weighted_sample has none.
SampleAgrees ==
    /\ s_pc = "returned" => s_selected \in weighted_sample(s_items, s_k)
    /\ s_pc = "raised" => weighted_sample(s_items, s_k) = {}

Is7820(item) == item.deptId = StrVal(C7820)

\* C12: at every step of a draw the pool is the roster the draw started
\* with, less exactly one entry per earlier step (the entries selected so
\* far); the weights over it are 2 for department "7820" and 1 otherwise,
\* so every pool entry can be chosen; and no value is selected more often
\* than the roster holds it: in a roster without value-equal entries a
\* candidate already selected is not in the pool.
C12_StepsReweighShrinkingPool ==
    s_pc = "loop" =>
        /\ Len(s_pool) = Len(s_items) - Len(s_selected)
        /\ SameBag(s_pool \o s_selected, s_items)
        /\ \A i \in 1..Len(s_pool) :
               Weights(s_pool)[i] = IF Is7820(s_pool[i]) THEN 2 ELSE 1
        /\ Choosable(s_pool) = 1..Len(s_pool)
        /\ \A x \in Range(s_selected) : Count(s_selected, x) <= Count(s_items, x)
        /\ NoRepeats(s_items) => Range(s_selected) \cap Range(s_pool) = {}

\* C12 witness: a draw of two is at its second step, one entry selected
\* and a smaller pool left.
C12_Witness ==
    /\ s_pc = "loop" /\ s_k >= 2
    /\ Len(s_selected) = 1 /\ s_pool # <<>>

\* C13: in a step, the probability of a "7820" entry is twice that of any
\* other entry of the same pool and the probabilities sum to one; in a
\* pool of one "7820" entry and one other the "7820" entry is chosen with
\* probability 2/3, which lies within 3 points of 66%.
C13_WeightProportional ==
    (s_pc = "loop" /\ s_pool # <<>>) =>
        LET P(i) == SelectProbability(s_pool, i)
            N == Len(s_pool)
        IN  /\ \A i, j \in 1..N :
                   (Is7820(s_pool[i]) /\ ~Is7820(s_pool[j])) =>
                       P(i)[1] * P(j)[2] = 2 * P(j)[1] * P(i)[2]
            /\ \A i, j \in 1..N :
                   (Is7820(s_pool[i]) <=> Is7820(s_pool[j])) =>
                       P(i)[1] * P(j)[2] = P(j)[1] * P(i)[2]
            /\ \A i \in 1..N : P(i)[1] > 0 /\ P(i)[2] = TotalWeight(s_pool)
            /\ \A i, j \in 1..N :
                   (N = 2 /\ Is7820(s_pool[i]) /\ ~Is7820(s_pool[j])) =>
                       /\ 3 * P(i)[1] = 2 * P(i)[2]
                       /\ 63 * P(i)[2] <= 100 * P(i)[1]
                       /\ 100 * P(i)[1] <= 69 * P(i)[2]

\* C13 witness: one winner is about to be drawn from a pool of one "7820"
\* candidate and one other.
C13_Witness ==
    /\ s_pc = "loop" /\ s_k = 1 /\ s_selected = <<>>
    /\ Len(s_pool) = 2
    /\ \E i, j \in 1..2 : Is7820(s_pool[i]) /\ ~Is7820(s_pool[j])

\* The cell is missing or blank: None, "" or only whitespace and
\* carriage-return artifacts (nothing is left of it after cleaning).
Blank(cell) == ~Truthy(cell) \/ ~Truthy(clean_text(cell))

\* C14: every candidate of the roster has a non-empty deptId and a
\* non-empty name, fullName is deptId + " - " + name, and a stored sheet
\* gave one candidate per row without a blank cell.  Fails on the code: a
\* department cell of only whitespace passes the test of line 213 and is
\* cleaned to "" afterwards.
C14_NoBlankCandidates ==
    /\ \A i \in 1..Len(lottery_candidates) :
           LET c == lottery_candidates[i]
           IN  /\ PyStr(c.deptId) # <<>>
               /\ PyStr(c.name) # <<>>
               /\ c.fullName
                    = StrVal(PyStr(c.deptId) \o <<" ", "-", " ">> \o PyStr(c.name))
    /\ (response.op = "upload" /\ response.status = 200) =>
           Len(lottery_candidates)
             = Cardinality({i \in 1..Len(sheet) :
                              ~Blank(sheet[i][1]) /\ ~Blank(sheet[i][2])})

\* C15: an upload that fails answers 400 and leaves the roster and the
\* winners list as they were; what an upload with success stores is the
\* outcome of a sheet read to the end, none of whose rows raises.
C15_FailedUploadKeepsState ==
    [][ /\ (response'.op = "upload" /\ response'.status # 200) =>
               /\ response'.status = 400
               /\ lottery_candidates' = lottery_candidates
               /\ lottery_winners' = lottery_winners
        /\ (response'.op = "upload" /\ response'.status = 200) =>
               /\ ~FileRaises([loads |-> TRUE, rows |-> sheet'])
               /\ lottery_candidates' = ParseRows(sheet')
      ]_vars

\* A failed upload found a roster and winners in place.
C15_Witness ==
    /\ response.op = "upload"
    /\ response.status = 400
    /\ lottery_candidates # <<>>
    /\ lottery_winners # <<>>

\* C16: while the last of the uploads and resets is an upload of a sheet with
\* rows, every entry of the winners list is a candidate of the roster that
\* upload stored, also when the upload ran while a draw was in progress.
\* Fails on the code: a draw that took its sample before the upload appends
\* it to the winners list the upload has just emptied.
C16_WinnersOfLatestUpload ==
    sheet # <<>> => Range(lottery_winners) \subseteq Range(uploaded)

\* The scores a contestant has.
VoteCount(scores, pid) == Cardinality(DOMAIN scores[pid])

\* C17: with the contest requests served one at a time, scores_db and
\* participants_db have the same keys; a contestant just added has an empty
\* score table, a deleted one has neither record nor table and is in no
\* leaderboard.
C17_SameKeys ==
    /\ DOMAIN scores_db = ParticipantIds(participants_db)
    /\ (reply.op = "add" /\ reply.status = 200) =>
           /\ reply.pid \in ParticipantIds(participants_db)
           /\ scores_db[reply.pid] = EmptyDict
    /\ (reply.op = "delete" /\ reply.status = 200) =>
           /\ reply.pid \notin ParticipantIds(participants_db)
           /\ reply.pid \notin DOMAIN scores_db
    /\ reply.op = "leaderboard" =>
           {reply.board[i].participant_id : i \in 1..Len(reply.board)}
             = DOMAIN scores_db

\* A contestant has been deleted and one with scores stays.
C17_Witness ==
    /\ reply.op = "delete"
    /\ reply.status = 200
    /\ \E pid \in DOMAIN scores_db : VoteCount(scores_db, pid) > 0

\* C18: an accepted vote of judge j for contestant p with score s sets p's
\* score from j to s; p's vote count grows by one if j had no score for p
\* and stays if j had one; the scores of the other judges for p, the scores
\* of the other contestants and participants_db stay as they were.
C18_VoteFrame ==
    [][ (reply'.op = "vote" /\ reply'.status = 200) =>
            LET p == reply'.pid
                j == reply'.judge
            IN  /\ participants_db' = participants_db
                /\ DOMAIN scores_db' = DOMAIN scores_db
                /\ p \in DOMAIN scores_db
                /\ scores_db'[p][j] = reply'.score
                /\ DOMAIN scores_db'[p] = DOMAIN scores_db[p] \cup {j}
                /\ VoteCount(scores_db', p)
                     = IF j \in DOMAIN scores_db[p]
                       THEN VoteCount(scores_db, p)
                       ELSE VoteCount(scores_db, p) + 1
                /\ \A i \in DOMAIN scores_db[p] \ {j} :
                       scores_db'[p][i] = scores_db[p][i]
                /\ \A q \in DOMAIN scores_db \ {p} : scores_db'[q] = scores_db[q]
      ]_vars

\* A judge has replaced a score for a contestant who has a score of the
\* other judge too, and another contestant has scores.
C18_Witness ==
    /\ reply.op = "vote"
    /\ reply.status = 200
    /\ reply.before = 2
    /\ VoteCount(scores_db, reply.pid) = 2
    /\ \E q \in DOMAIN scores_db \ {reply.pid} : VoteCount(scores_db, q) > 0

\* C19: a vote for an id that is not registered is answered 404, a vote with
\* a score outside 0..10 is answered 400, and no stored score is outside
\* 0..10.  Fails on the code: the test of line 113 lets scores up to 100
\* through.
C19_ScoresWithinTen ==
    /\ reply.op = "vote" =>
           reply.status = IF reply.pid \notin ParticipantIds(participants_db)
                          THEN 404
                          ELSE IF ~(0 <= reply.score /\ reply.score <= 10)
                               THEN 400
                               ELSE 200
    /\ \A p \in DOMAIN scores_db : \A j \in DOMAIN scores_db[p] :
           0 <= scores_db[p][j] /\ scores_db[p][j] <= 10

\* C20: the leaderboard has one entry for each registered contestant, also
\* for one without scores (average 0, vote_count 0); vote_count is the number
\* of judges with a stored score for the contestant; the averages do not
\* rise from one entry to the next.
C20_Leaderboard ==
    reply.op = "leaderboard" =>
        LET board == reply.board
        IN  /\ Len(board) = Len(participants_db)
            /\ \A pid \in ParticipantIds(participants_db) :
                   Cardinality({i \in 1..Len(board) : board[i].participant_id = pid})
                     = 1
            /\ \A i \in 1..Len(board) :
                   /\ board[i].participant_id \in DOMAIN scores_db
                   /\ board[i].vote_count
                        = VoteCount(scores_db, board[i].participant_id)
                   /\ board[i].vote_count = 0 => board[i].average_score = 0
            /\ \A i, j \in 1..Len(board) :
                   i < j => board[i].average_score >= board[j].average_score

\* A leaderboard in which the contestant added last comes first and the
\* other has no scores.
C20_Witness ==
    /\ reply.op = "leaderboard"
    /\ Len(reply.board) = 2
    /\ reply.board[1].participant_id > reply.board[2].participant_id
    /\ reply.board[2].vote_count = 0
    /\ reply.board[1].average_score > 0

====
